---- MODULE Spec2Model ----
(***************************************************************************)
(* TopoSem, 4-GraphAnalyzer: reverse path enumeration over a rule graph    *)
(* (SearchPath.py, DirectedGraphPathFinder) and the scoring of the path    *)
(* structures it returns (CalculateScore.py).                              *)
(*                                                                         *)
(* Node ids are the integers 1..NumNodes.  A Python None is modelled by    *)
(* the value None (-1); costs, stealth and centrality are never negative.  *)
(* dot_lines is the DOT file extract_dot_nodes.parse_dot reads, graph_info *)
(* the value it returns; both are empty when the graph file comes from     *)
(* elsewhere.                                                              *)
(* heap holds the tree dicts of _build_forest_from_paths and                *)
(* _split_tree_at_or_nodes as objects, an object's address being its index; *)
(* forest_roots are the addresses of the trees of the merged forest.  Both  *)
(* are empty where the trees are only looked at as values.                  *)
(* A nested path list is modelled by tagged items: Atom(n) is the node id  *)
(* n, List(s) is the Python list with the items s.                         *)
(***************************************************************************)
EXTENDS Integers, Sequences, FiniteSets, TLC

VARIABLES nodes_info, logic_ids, edges, predecessors_map, pc, target_id,
          forward_paths, merged_forest, final_trees, all_paths_as_lists,
          results, call_stack, all_backward_paths, dot_lines, graph_info,
          heap, forest_roots

vars == <<nodes_info, logic_ids, edges, predecessors_map, pc, target_id,
          forward_paths, merged_forest, final_trees, all_paths_as_lists,
          results, call_stack, all_backward_paths, dot_lines, graph_info,
          heap, forest_roots>>

----------------------------------------------------------------------------
(* Bounds of the model. *)

NumNodes == 4    \* node ids of the general graphs
NumGates == 1    \* the ids 1..NumGates are the AND gates of the general graphs
MaxEdges == 3    \* edge records of a general graph
MaxChain == 3    \* edges of a linear chain
MaxHops == 2     \* hops of one input branch of the AND join
MaxAtoms == 4    \* node ids of a nested path structure given to the scorer
MaxLines == 3    \* node and edge lines of a DOT file
NumPathIds == 3  \* node ids of the forward paths given to the forest builder
MaxPaths == 3    \* forward paths given to the forest builder
MaxPathLen == 3  \* nodes of such a forward path

Ids == 1..NumNodes
None == 0 - 1

\* no DOT file has been parsed
NoGraphInfo == [nodes |-> <<>>, edges |-> <<>>]

----------------------------------------------------------------------------
(* Sequence helpers. *)

InSeq(x, s) == \E i \in 1..Len(s) : s[i] = x

Reverse(s) == [i \in 1..Len(s) |-> s[Len(s) + 1 - i]]

RECURSIVE Flatten(_)
Flatten(ss) == IF ss = <<>> THEN <<>> ELSE Head(ss) \o Flatten(Tail(ss))

Max(a, b) == IF a >= b THEN a ELSE b

----------------------------------------------------------------------------
(* DirectedGraphPathFinder.__init__ and its lookups. *)

\* _build_predecessor_map: for every edge in list order, append the source to
\* the target's list (a defaultdict: only targets of edges are keys).  An edge
\* with a falsy (empty) source or target is skipped; ids of the model are never
\* empty.
RECURSIVE PredsOf(_, _)
PredsOf(es, t) ==
    IF es = <<>> THEN <<>>
    ELSE IF Head(es).target = t
         THEN <<Head(es).source>> \o PredsOf(Tail(es), t)
         ELSE PredsOf(Tail(es), t)

BuildPredecessorMap(es) ==
    [t \in {es[i].target : i \in 1..Len(es)} |-> PredsOf(es, t)]

\* self.predecessors_map.get(node_id, [])
Predecessors(n) ==
    IF n \in DOMAIN predecessors_map THEN predecessors_map[n] ELSE <<>>

\* self.nodes_info.get(node_id, {}).get('Type') == 'AND'
IsAndType(n) == n \in DOMAIN nodes_info /\ nodes_info[n].Type = "AND"

----------------------------------------------------------------------------
(* _find_paths_recursive, as a function of (current_node_id,               *)
(* path_from_target): the paths it appends to all_backward_paths, in       *)
(* order.                                                                  *)

\* Mutant: a branch is cut only when a node comes up for the third time.
CycleGuard_SecondRevisit(current_node_id, path_from_target) ==
    Cardinality({i \in 1..Len(path_from_target) :
                    path_from_target[i] = current_node_id}) >= 2

\* line 74: current_node_id in path_from_target
CycleGuard(current_node_id, path_from_target) ==
    InSeq(current_node_id, path_from_target)

RECURSIVE FindPathsRecursive(_, _), FindPathsEach(_, _, _)

\* Mutant: at a node without predecessors the accumulated path is emitted
\* without the node itself.
FindPathsRecursive_DropsSource(current_node_id, path_from_target) ==
    IF CycleGuard(current_node_id, path_from_target)
    THEN <<path_from_target>>
    ELSE LET new_path_from_target == <<current_node_id>> \o path_from_target
             predecessors == Predecessors(current_node_id)
         IN  IF predecessors = <<>>
             THEN <<path_from_target>>
             ELSE IF Len(predecessors) = 1 /\ IsAndType(predecessors[1])
                  THEN LET and_node_id == predecessors[1]
                           path_with_and_node == <<and_node_id>> \o new_path_from_target
                           and_inputs == Predecessors(and_node_id)
                       IN  IF and_inputs = <<>>
                           THEN <<path_with_and_node>>
                           ELSE FindPathsEach(and_inputs, 1, path_with_and_node)
                  ELSE FindPathsEach(predecessors, 1, new_path_from_target)

FindPathsRecursive(current_node_id, path_from_target) ==
    IF CycleGuard(current_node_id, path_from_target)
    THEN <<path_from_target>>
    ELSE LET new_path_from_target == <<current_node_id>> \o path_from_target
             predecessors == Predecessors(current_node_id)
         IN  IF predecessors = <<>>
             THEN <<new_path_from_target>>
             ELSE IF Len(predecessors) = 1 /\ IsAndType(predecessors[1])
                  THEN LET and_node_id == predecessors[1]
                           path_with_and_node == <<and_node_id>> \o new_path_from_target
                           and_inputs == Predecessors(and_node_id)
                       IN  IF and_inputs = <<>>
                           THEN <<path_with_and_node>>
                           ELSE FindPathsEach(and_inputs, 1, path_with_and_node)
                  ELSE FindPathsEach(predecessors, 1, new_path_from_target)

\* Mutant: only the first predecessor of a node is searched.
FindPathsEach_FirstOnly(ids, i, path) ==
    IF i > 1 \/ i > Len(ids) THEN <<>>
    ELSE FindPathsRecursive(ids[i], path)

\* the loops of lines 96-97 and 99-100
FindPathsEach(ids, i, path) ==
    IF i > Len(ids) THEN <<>>
    ELSE FindPathsRecursive(ids[i], path) \o FindPathsEach(ids, i + 1, path)

\* Mutant: the search runs without the check that the target is declared.
FindAllPathsToTarget_NoDeclaredCheck(t) ==
    LET backward_paths == FindPathsRecursive(t, <<>>)
    IN  [i \in 1..Len(backward_paths) |-> Reverse(backward_paths[i])]

\* Mutant: the paths are returned as the search appended them.
FindAllPathsToTarget_NotReversed(t) ==
    IF t \notin DOMAIN nodes_info THEN <<>>
    ELSE FindPathsRecursive(t, <<>>)

\* find_all_paths_to_target
FindAllPathsToTarget(t) ==
    IF t \notin DOMAIN nodes_info THEN <<>>
    ELSE LET backward_paths == FindPathsRecursive(t, <<>>)
         IN  [i \in 1..Len(backward_paths) |-> Reverse(backward_paths[i])]

----------------------------------------------------------------------------
(* _build_forest_from_paths.  A tree node is [id, children].               *)

RECURSIVE NewChain(_)
NewChain(ids) ==
    [id |-> Head(ids),
     children |-> IF Len(ids) = 1 THEN <<>> ELSE <<NewChain(Tail(ids))>>]

\* Mutant: no child is ever found, every node of a path gets a new child.
FindChild_NeverFound(children, node_id) == 0

\* index of the first child with the given id, 0 when there is none
FindChild(children, node_id) ==
    IF \E i \in 1..Len(children) : children[i].id = node_id
    THEN CHOOSE i \in 1..Len(children) :
            /\ children[i].id = node_id
            /\ \A j \in 1..(i - 1) : children[j].id # node_id
    ELSE 0

\* the walk of path[1:] down the tree (lines 137-144)
RECURSIVE InsertPath(_, _)
InsertPath(tree, rest) ==
    IF rest = <<>> THEN tree
    ELSE LET i == FindChild(tree.children, Head(rest))
         IN  IF i # 0
             THEN [tree EXCEPT !.children[i] = InsertPath(tree.children[i], Tail(rest))]
             ELSE [tree EXCEPT !.children = Append(tree.children, NewChain(rest))]

\* Mutant: root_map never holds the start node, every path starts a new tree.
RootIndex_AlwaysNew(forest, start_node_id) == 0

\* root_map: the tree of forest that is rooted at start_node_id, 0 for none
RootIndex(forest, start_node_id) ==
    IF \E i \in 1..Len(forest) : forest[i].id = start_node_id
    THEN CHOOSE i \in 1..Len(forest) : forest[i].id = start_node_id
    ELSE 0

AddPathToForest(forest, path) ==
    IF path = <<>> THEN forest
    ELSE LET r == RootIndex(forest, Head(path))
         IN  IF r = 0
             THEN Append(forest, InsertPath([id |-> Head(path), children |-> <<>>], Tail(path)))
             ELSE [forest EXCEPT ![r] = InsertPath(forest[r], Tail(path))]

RECURSIVE BuildForestFrom(_, _)
BuildForestFrom(forest, paths) ==
    IF paths = <<>> THEN forest
    ELSE BuildForestFrom(AddPathToForest(forest, Head(paths)), Tail(paths))

BuildForestFromPaths(paths) == BuildForestFrom(<<>>, paths)

----------------------------------------------------------------------------
(* _split_tree_at_or_nodes *)

RECURSIVE SplitTreeAtOrNodes(_)

\* Mutant: an AND node is split like any other node.
SplitTreeAtOrNodes_SplitsAndNodes(node) ==
    IF node.children = <<>> THEN <<node>>
    ELSE LET split_children_branches ==
                 Flatten([i \in 1..Len(node.children) |->
                             SplitTreeAtOrNodes(node.children[i])])
         IN  [i \in 1..Len(split_children_branches) |->
                 [id |-> node.id, children |-> <<split_children_branches[i]>>]]

\* Mutant: an AND node gets its rebuilt children in the opposite order.
SplitTreeAtOrNodes_ReordersAndChildren(node) ==
    IF node.children = <<>> THEN <<node>>
    ELSE LET split_children_branches ==
                 Flatten([i \in 1..Len(node.children) |->
                             SplitTreeAtOrNodes(node.children[i])])
         IN  IF IsAndType(node.id)
             THEN <<[id |-> node.id, children |-> Reverse(split_children_branches)]>>
             ELSE [i \in 1..Len(split_children_branches) |->
                     [id |-> node.id, children |-> <<split_children_branches[i]>>]]

SplitTreeAtOrNodes(node) ==
    IF node.children = <<>> THEN <<node>>
    ELSE LET split_children_branches ==
                 Flatten([i \in 1..Len(node.children) |->
                             SplitTreeAtOrNodes(node.children[i])])
         IN  IF IsAndType(node.id)
             THEN <<[id |-> node.id, children |-> split_children_branches]>>
             ELSE [i \in 1..Len(split_children_branches) |->
                     [id |-> node.id, children |-> <<split_children_branches[i]>>]]

SplitForest(forest) ==
    Flatten([i \in 1..Len(forest) |-> SplitTreeAtOrNodes(forest[i])])

----------------------------------------------------------------------------
(* _convert_tree_to_list and reverse_nested_list *)

Atom(n) == [isList |-> FALSE, id |-> n, items |-> <<>>]
List(s) == [isList |-> TRUE, id |-> 0, items |-> s]

RECURSIVE ConvertTreeToList(_)

\* Mutant: an AND node is written after its branch lists.
ConvertTreeToList_GateAfterBranches(node) ==
    IF node.children = <<>> THEN List(<<Atom(node.id)>>)
    ELSE LET child_lists == [i \in 1..Len(node.children) |->
                                ConvertTreeToList(node.children[i])]
         IN  IF IsAndType(node.id)
             THEN List(<<List(child_lists), Atom(node.id)>>)
             ELSE List(<<Atom(node.id)>> \o child_lists[1].items)

ConvertTreeToList(node) ==
    IF node.children = <<>> THEN List(<<Atom(node.id)>>)
    ELSE LET child_lists == [i \in 1..Len(node.children) |->
                                ConvertTreeToList(node.children[i])]
         IN  IF IsAndType(node.id)
             THEN List(<<Atom(node.id), List(child_lists)>>)
             ELSE List(<<Atom(node.id)>> \o child_lists[1].items)

\* Mutant: the converted list is returned without the final reversal.
ReverseNestedList_NotReversed(lst) == lst

\* Mutant: only the outer list is reversed, the lists inside it are kept.
ReverseNestedList_TopLevelOnly(lst) ==
    IF lst.isList
    THEN List([i \in 1..Len(lst.items) |-> lst.items[Len(lst.items) + 1 - i]])
    ELSE lst

RECURSIVE ReverseNestedList(_)
ReverseNestedList(lst) ==
    IF lst.isList
    THEN List([i \in 1..Len(lst.items) |->
                  ReverseNestedList(lst.items[Len(lst.items) + 1 - i])])
    ELSE lst

\* get_paths_as_lists, steps 2-4, from the linear paths
PathsAsLists(trees) ==
    [i \in 1..Len(trees) |-> ReverseNestedList(ConvertTreeToList(trees[i]))]

----------------------------------------------------------------------------
(* CalculateScore.py.  A hop is a pair [src, dst] of items.                *)

NoPrev == Atom(None)

Hop(a, b) == [src |-> a, dst |-> b]

\* all(isinstance(x, list) for x in path); true of the empty list
AllLists(items) == \A i \in 1..Len(items) : items[i].isList

\* get_first_nodes
RECURSIVE GetFirstNodes(_)

\* Mutant: of a branch group only the first branch is entered.
GetFirstNodes_FirstBranchOnly(path) ==
    IF path.isList
    THEN IF path.items[1].isList
         THEN GetFirstNodes(path.items[1])
         ELSE <<path.items[1]>>
    ELSE <<path>>

GetFirstNodes(path) ==
    IF path.isList
    THEN IF AllLists(path.items)
         THEN Flatten([i \in 1..Len(path.items) |-> GetFirstNodes(path.items[i])])
         ELSE IF path.items[1].isList
              THEN GetFirstNodes(path.items[1])
              ELSE <<path.items[1]>>
    ELSE <<path>>

\* extract_hops(path, parent=None, hops): hops are the pairs it appends to
\* hops, in order; ends is its return value, a single node being modelled by
\* the one-element sequence (every caller treats the two alike).
RECURSIVE ExtractHops(_), WalkHops(_, _, _)
ExtractHops(path) ==
    IF ~path.isList THEN [hops |-> <<>>, ends |-> <<path>>]
    ELSE IF AllLists(path.items)
    THEN LET rs == [i \in 1..Len(path.items) |-> ExtractHops(path.items[i])]
         IN  [hops |-> Flatten([i \in 1..Len(rs) |-> rs[i].hops]),
              ends |-> Flatten([i \in 1..Len(rs) |-> rs[i].ends])]
    ELSE LET last == path.items[Len(path.items)]
         IN  [hops |-> WalkHops(path.items, 1, NoPrev),
              ends |-> IF last.isList THEN ExtractHops(last).ends ELSE <<last>>]
\* Mutant: after a branch group only the end of its first branch is connected
\* to the next node.
WalkHops_FirstEndOnly(items, idx, prev) ==
    IF idx > Len(items) THEN <<>>
    ELSE LET node == items[idx]
         IN  IF node.isList
             THEN LET branch_firsts == GetFirstNodes(node)
                      from_prev == IF prev # NoPrev
                                   THEN [i \in 1..Len(branch_firsts) |->
                                            Hop(prev, branch_firsts[i])]
                                   ELSE <<>>
                      inner == ExtractHops(node)
                      has_next == idx + 1 <= Len(items)
                      next_node == IF has_next THEN items[idx + 1] ELSE NoPrev
                      to_next == IF has_next /\ ~next_node.isList
                                 THEN <<Hop(inner.ends[1], next_node)>>
                                 ELSE <<>>
                  IN  from_prev \o inner.hops \o to_next
                        \o WalkHops(items, idx + 1, next_node)
             ELSE (IF prev # NoPrev /\ prev # node THEN <<Hop(prev, node)>> ELSE <<>>)
                    \o WalkHops(items, idx + 1, node)

\* the while loop of lines 153-175, from index idx with the given prev
WalkHops(items, idx, prev) ==
    IF idx > Len(items) THEN <<>>
    ELSE LET node == items[idx]
         IN  IF node.isList
             THEN LET branch_firsts == GetFirstNodes(node)
                      from_prev == IF prev # NoPrev
                                   THEN [i \in 1..Len(branch_firsts) |->
                                            Hop(prev, branch_firsts[i])]
                                   ELSE <<>>
                      inner == ExtractHops(node)
                      has_next == idx + 1 <= Len(items)
                      next_node == IF has_next THEN items[idx + 1] ELSE NoPrev
                      to_next ==
                          IF has_next
                          THEN Flatten([e \in 1..Len(inner.ends) |->
                                  IF next_node.isList
                                  THEN LET fs == GetFirstNodes(next_node)
                                       IN  [b \in 1..Len(fs) |-> Hop(inner.ends[e], fs[b])]
                                  ELSE <<Hop(inner.ends[e], next_node)>>])
                          ELSE <<>>
                  IN  from_prev \o inner.hops \o to_next
                        \o WalkHops(items, idx + 1, next_node)
             ELSE (IF prev # NoPrev /\ prev # node THEN <<Hop(prev, node)>> ELSE <<>>)
                    \o WalkHops(items, idx + 1, node)

\* load_graph_info's edge_dict.get((src, dst)): the last record of the pair,
\* NoEdge when there is none
NoEdge == [source |-> 0, target |-> 0, cost |-> None, stealth |-> None]

EdgeDictGet(src, dst) ==
    IF \E i \in 1..Len(edges) : edges[i].source = src /\ edges[i].target = dst
    THEN edges[CHOOSE i \in 1..Len(edges) :
                 /\ edges[i].source = src /\ edges[i].target = dst
                 /\ \A j \in (i + 1)..Len(edges) :
                       ~(edges[j].source = src /\ edges[j].target = dst)]
    ELSE NoEdge

\* the edge record a hop looks up (a hop between two node ids)
HopEdge(h) == EdgeDictGet(h.src.id, h.dst.id)

RECURSIVE SumSeq(_)
SumSeq(s) == IF s = <<>> THEN 0 ELSE Head(s) + SumSeq(Tail(s))

\* Mutant: a hop whose edge has no cost is added like any other.
CalcPathCost_AddsNull(path) ==
    LET hops == ExtractHops(path).hops
    IN  SumSeq([i \in 1..Len(hops) |-> HopEdge(hops[i]).cost])

\* calc_path_cost
CalcPathCost(path) ==
    LET hops == ExtractHops(path).hops
        defined == SelectSeq(hops, LAMBDA h : HopEdge(h).cost # None)
    IN  SumSeq([i \in 1..Len(defined) |-> HopEdge(defined[i]).cost])

\* round(x, 3) of x = total / n, in thousandths.  A tie needs 2000 * total / n
\* to be an odd integer, which no n below 16 allows.
Round3(total, n) == (2000 * total + n) \div (2 * n)

\* Mutant: a hop without a stealth value counts as a hop of stealth 0.
CalcPathStealth_NullAsZero(path) ==
    LET hops == ExtractHops(path).hops
        defined == SelectSeq(hops, LAMBDA h : HopEdge(h).stealth # None)
        stealth_values == [i \in 1..Len(defined) |-> HopEdge(defined[i]).stealth]
    IN  IF stealth_values = <<>> THEN None
        ELSE Round3(SumSeq(stealth_values), Len(hops))

\* calc_path_stealth, in thousandths; None when no hop has a stealth
CalcPathStealth(path) ==
    LET hops == ExtractHops(path).hops
        defined == SelectSeq(hops, LAMBDA h : HopEdge(h).stealth # None)
        stealth_values == [i \in 1..Len(defined) |-> HopEdge(defined[i]).stealth]
    IN  IF stealth_values = <<>> THEN None
        ELSE Round3(SumSeq(stealth_values), Len(stealth_values))

RECURSIVE MaxSeq(_)
MaxSeq(s) == IF s = <<>> THEN 0 ELSE Max(Head(s), MaxSeq(Tail(s)))

\* calc_path_length._count_nodes
RECURSIVE CountNodes(_)

\* Mutant: a branch group counts the sum of its branches, not the longest.
CountNodes_SumsBranches(p) ==
    IF p.isList
    THEN SumSeq([i \in 1..Len(p.items) |-> CountNodes(p.items[i])])
    ELSE 1

\* Mutant: a branch group counts its first branch, not the longest.
CountNodes_FirstBranch(p) ==
    IF p.isList
    THEN IF AllLists(p.items)
         THEN CountNodes(p.items[1])
         ELSE SumSeq([i \in 1..Len(p.items) |-> CountNodes(p.items[i])])
    ELSE 1

CountNodes(p) ==
    IF p.isList
    THEN IF AllLists(p.items)
         THEN MaxSeq([i \in 1..Len(p.items) |-> CountNodes(p.items[i])])
         ELSE SumSeq([i \in 1..Len(p.items) |-> CountNodes(p.items[i])])
    ELSE 1

\* calc_path_length._count_logic_nodes: ids that start with "LOGIC_"
RECURSIVE CountLogicNodes(_)

\* Mutant: only the LOGIC_ ids outside the branch groups are counted.
CountLogicNodes_SkipsGroups(p) ==
    IF p.isList
    THEN IF AllLists(p.items) THEN 0
         ELSE SumSeq([i \in 1..Len(p.items) |-> CountLogicNodes(p.items[i])])
    ELSE IF p.id \in logic_ids THEN 1 ELSE 0

CountLogicNodes(p) ==
    IF p.isList
    THEN SumSeq([i \in 1..Len(p.items) |-> CountLogicNodes(p.items[i])])
    ELSE IF p.id \in logic_ids THEN 1 ELSE 0

\* calc_path_length
CalcPathLength(path) == CountNodes(path) - CountLogicNodes(path) - 1

\* extract_all_nodes_and_centrality: the centrality of every id, in order
RECURSIVE AllCentralities(_)

\* Mutant: the ids inside a branch group are not visited.
AllCentralities_SkipsGroups(p) ==
    IF p.isList
    THEN IF AllLists(p.items) THEN <<>>
         ELSE Flatten([i \in 1..Len(p.items) |-> AllCentralities(p.items[i])])
    ELSE <<IF p.id \in DOMAIN nodes_info THEN nodes_info[p.id].centrality ELSE None>>

AllCentralities(p) ==
    IF p.isList
    THEN Flatten([i \in 1..Len(p.items) |-> AllCentralities(p.items[i])])
    ELSE <<IF p.id \in DOMAIN nodes_info THEN nodes_info[p.id].centrality ELSE None>>

\* calc_path_centrality
CalcPathCentrality(path) ==
    LET centrality_values == SelectSeq(AllCentralities(path), LAMBDA c : c # None)
    IN  IF centrality_values = <<>> THEN None ELSE MaxSeq(centrality_values)

\* analyze_path, without the path string
AnalyzePath(path) ==
    [hops |-> ExtractHops(path).hops,
     cost |-> CalcPathCost(path),
     stealth |-> CalcPathStealth(path),
     length |-> CalcPathLength(path),
     centrality |-> CalcPathCentrality(path)]

----------------------------------------------------------------------------
(* The graphs loaded.  extract_dot_nodes.parse_dot writes the JSON file    *)
(* that __init__ and load_graph_info read: a node's Type follows from its  *)
(* id prefix, an edge's cost and stealth from the rule table.              *)

\* kinds of node: its Type, and whether its id starts with "LOGIC_"
KAction == [Type |-> "action", logic |-> FALSE]
KPhysical == [Type |-> "physical_channel", logic |-> FALSE]
KSystem == [Type |-> "system_channel", logic |-> FALSE]
KAnd == [Type |-> "AND", logic |-> TRUE]
KOr == [Type |-> "OR", logic |-> TRUE]
\* a node typed AND whose id has no LOGIC_ prefix (a hand-written graph file)
KAndPlain == [Type |-> "AND", logic |-> FALSE]
\* an id no node record declares
KUndeclared == [Type |-> "", logic |-> FALSE]

\* parse_dot's rule table for an edge between nodes of kinds ks and kt
EdgeAttrs(ks, kt) ==
    IF ks.logic THEN [cost |-> 1, stealth |-> 1]
    ELSE IF kt.logic THEN [cost |-> None, stealth |-> None]
    ELSE IF "physical_channel" \in {ks.Type, kt.Type} THEN [cost |-> 5, stealth |-> 3]
    ELSE IF "system_channel" \in {ks.Type, kt.Type} THEN [cost |-> 3, stealth |-> 2]
    ELSE [cost |-> 1, stealth |-> 1]

\* the loaded graph with the given kind per id, edge pairs and target
Graph(kinds, pairs, t) ==
    [nodes_info |-> [n \in {m \in DOMAIN kinds : kinds[m] # KUndeclared} |->
                        [Type |-> kinds[n].Type, centrality |-> 0]],
     logic_ids |-> {n \in DOMAIN kinds : kinds[n].logic},
     edges |-> [i \in 1..Len(pairs) |->
                  [source |-> pairs[i][1], target |-> pairs[i][2],
                   cost |-> EdgeAttrs(kinds[pairs[i][1]], kinds[pairs[i][2]]).cost,
                   stealth |-> EdgeAttrs(kinds[pairs[i][1]], kinds[pairs[i][2]]).stealth]],
     target |-> t]

\* General graphs: every edge list of at most k records in which each edge
\* leads to the target or to the source of an earlier edge (any other edge is
\* never looked at by the search).  Duplicates, self-loops and cycles occur.
RECURSIVE BackwardEdgeSeqs(_, _)
BackwardEdgeSeqs(t, k) ==
    IF k = 0 THEN {<<>>}
    ELSE LET prev == BackwardEdgeSeqs(t, k - 1)
             longest == {e \in prev : Len(e) = k - 1}
             grown == {Append(E, <<s, n>>) : E \in longest, s \in Ids, n \in Ids}
         IN  prev \cup
             {e \in grown : e[k][2] \in {t} \cup {e[i][1] : i \in 1..(k - 1)}}

\* ids 1..NumGates are AND gates, the last id is declared by no node record
GeneralKinds ==
    [n \in Ids |-> IF n = NumNodes THEN KUndeclared
                   ELSE IF n <= NumGates THEN KAnd ELSE KAction]

GeneralGraphs(t) == {Graph(GeneralKinds, E, t) : E \in BackwardEdgeSeqs(t, MaxEdges)}

\* Linear chains 1 -> 2 -> ... -> len + 1 of nodes of any kind; any node of the
\* chain may be the target
ChainKinds == {KAction, KPhysical, KSystem, KAnd, KOr}

ChainGraphs(len) ==
    {Graph(kinds, [i \in 1..len |-> <<i, i + 1>>], t) :
        kinds \in [1..(len + 1) -> ChainKinds], t \in 1..(len + 1)}

\* AND joins: target 1, gate 2, and two input branches of h1 and h2 hops that
\* end in the gate; the edge of either branch into the gate may come first.
BranchKinds == {KAction, KPhysical, KOr}

AndJoinPairs(h1, h2, swap) ==
    LET b1 == [i \in 1..h1 |-> <<2 + i, IF i = h1 THEN 2 ELSE 3 + i>>]
        b2 == [i \in 1..h2 |-> <<2 + h1 + i, IF i = h2 THEN 2 ELSE 3 + h1 + i>>]
    IN  <<<<2, 1>>>> \o (IF swap THEN b2 \o b1 ELSE b1 \o b2)

AndJoinGraphs(h1, h2) ==
    {Graph([n \in 1..(2 + h1 + h2) |->
               IF n = 1 THEN KAction ELSE IF n = 2 THEN gate ELSE bk[n]],
           AndJoinPairs(h1, h2, swap), 1) :
        bk \in [3..(2 + h1 + h2) -> BranchKinds],
        gate \in {KAnd, KAndPlain}, swap \in BOOLEAN}

----------------------------------------------------------------------------
(* The state after DirectedGraphPathFinder.__init__ and load_graph_info,   *)
(* and the calls made on it.                                               *)

Loaded(g) ==
    /\ nodes_info = g.nodes_info
    /\ logic_ids = g.logic_ids
    /\ edges = g.edges
    /\ predecessors_map = BuildPredecessorMap(g.edges)
    /\ target_id = g.target
    /\ pc = "loaded"
    /\ forward_paths = <<>>
    /\ merged_forest = <<>>
    /\ final_trees = <<>>
    /\ all_paths_as_lists = <<>>
    /\ results = <<>>
    /\ call_stack = <<>>
    /\ all_backward_paths = <<>>
    /\ dot_lines = <<>>
    /\ graph_info = NoGraphInfo
    /\ heap = <<>>
    /\ forest_roots = <<>>

Init ==
    \/ \E t \in Ids : \E g \in GeneralGraphs(t) : Loaded(g)
    \/ \E len \in 1..MaxChain : \E g \in ChainGraphs(len) : Loaded(g)
    \/ \E h1 \in 1..MaxHops, h2 \in 1..MaxHops : \E g \in AndJoinGraphs(h1, h2) : Loaded(g)

graph_vars == <<nodes_info, logic_ids, edges, predecessors_map, target_id,
                dot_lines, graph_info>>
dfs_vars == <<call_stack, all_backward_paths>>
heap_vars == <<heap, forest_roots>>

\* finder.find_all_paths_to_target(target_id), as save_txt calls it
FindAllPaths ==
    /\ pc = "loaded"
    /\ forward_paths' = FindAllPathsToTarget(target_id)
    /\ pc' = "searched"
    /\ UNCHANGED <<graph_vars, heap_vars, dfs_vars, merged_forest, final_trees,
                   all_paths_as_lists, results>>

\* finder.get_paths_as_lists(target_id)
GetPathsAsLists ==
    /\ pc = "loaded"
    /\ LET all_linear_paths == FindAllPathsToTarget(target_id)
           forest == BuildForestFromPaths(all_linear_paths)
           trees == SplitForest(forest)
       IN  /\ forward_paths' = all_linear_paths
           /\ IF all_linear_paths = <<>>
              THEN /\ merged_forest' = <<>>
                   /\ final_trees' = <<>>
                   /\ all_paths_as_lists' = <<>>
              ELSE /\ merged_forest' = forest
                   /\ final_trees' = trees
                   /\ all_paths_as_lists' = PathsAsLists(trees)
    /\ pc' = "listed"
    /\ UNCHANGED <<graph_vars, heap_vars, dfs_vars, results>>

\* CalculateScore.main, step 3: analyze_path on every returned structure
AnalyzePaths ==
    /\ pc = "listed"
    /\ results' = [i \in 1..Len(all_paths_as_lists) |-> AnalyzePath(all_paths_as_lists[i])]
    /\ pc' = "scored"
    /\ UNCHANGED <<graph_vars, heap_vars, dfs_vars, forward_paths, merged_forest, final_trees,
                   all_paths_as_lists>>

Next == FindAllPaths \/ GetPathsAsLists \/ AnalyzePaths

Spec == Init /\ [][Next]_vars

----------------------------------------------------------------------------
(* extract_dot_nodes.parse_dot.  The DOT file is the sequence of its node  *)
(* and edge lines (every other line is skipped, lines 61-62).  The ids of  *)
(* the file are 1..Len(DotPrefix), the prefix of id n being DotPrefix[n];  *)
(* the LOGIC_ id has AND in its name.  A node line is an id and a label,   *)
(* an edge line a source and a target.                                     *)

DotPrefix == <<"LOGIC_", "CH_", "CH_", "A_">>
DotIds == 1..Len(DotPrefix)

\* the labels a node line of the id can carry
DotLabels(n) == IF DotPrefix[n] = "CH_" THEN {"[Physical]", "[System]", ""} ELSE {""}

NodeLine(n, label) == [is_edge |-> FALSE, id |-> n, label |-> label, src |-> 0, tgt |-> 0]
EdgeLine(s, t) == [is_edge |-> TRUE, id |-> 0, label |-> "", src |-> s, tgt |-> t]

DotLineSet ==
    {NodeLine(n, l) : n \in DotIds, l \in {"[Physical]", "[System]", ""}}
        \cup {EdgeLine(s, t) : s \in DotIds, t \in DotIds}

\* the lines a file can hold: a node line with a label of its prefix, an edge
\* line between two different ids
DotLines ==
    {l \in DotLineSet : IF l.is_edge THEN l.src # l.tgt ELSE l.label \in DotLabels(l.id)}

\* lines 103-132: the type of a declared node
NodeType(n, label) ==
    IF DotPrefix[n] = "CH_"
    THEN IF label = "[Physical]" THEN "physical_channel"
         ELSE IF label = "[System]" THEN "system_channel"
         ELSE "channel"
    ELSE IF DotPrefix[n] = "A_" THEN "action"
    ELSE IF DotPrefix[n] = "T_" THEN "trigger"
    ELSE "AND"

\* nodes.get(n, {}).get("Type", "")
TypeOf(nodes, n) == IF n \in DOMAIN nodes THEN nodes[n] ELSE ""

\* lines 68-98: the record of an edge line, nodes being the node lines read
\* before it
EdgeRecord(nodes, src, tgt) ==
    LET types == {TypeOf(nodes, src), TypeOf(nodes, tgt)}
        attrs == IF DotPrefix[src] = "LOGIC_"
                 THEN [type |-> "explicit", cost |-> 1, stealth |-> 1]
                 ELSE IF DotPrefix[tgt] = "LOGIC_"
                 THEN [type |-> "explicit", cost |-> None, stealth |-> None]
                 ELSE IF "physical_channel" \in types
                 THEN [type |-> "physical_implicit", cost |-> 5, stealth |-> 3]
                 ELSE IF "system_channel" \in types
                 THEN [type |-> "system_implicit", cost |-> 3, stealth |-> 2]
                 ELSE [type |-> "explicit", cost |-> 1, stealth |-> 1]
    IN  [source |-> src, target |-> tgt, type |-> attrs.type,
         cost |-> attrs.cost, stealth |-> attrs.stealth]

\* lines 58-141: the loop over the lines; nodes maps a declared id to its
\* Type, edges is the list of edge records
RECURSIVE ParseLines(_, _, _)
ParseLines(lines, nodes, parsed_edges) ==
    IF lines = <<>> THEN [nodes |-> nodes, edges |-> parsed_edges]
    ELSE LET line == Head(lines)
         IN  IF line.is_edge
             THEN ParseLines(Tail(lines), nodes,
                             Append(parsed_edges, EdgeRecord(nodes, line.src, line.tgt)))
             ELSE ParseLines(Tail(lines),
                             [n \in DOMAIN nodes \cup {line.id} |->
                                 IF n = line.id THEN NodeType(line.id, line.label)
                                 ELSE nodes[n]],
                             parsed_edges)

\* the values networkx.betweenness_centrality can hand back, in thousandths
BetweennessValues == {0, 500}

\* Mutant: every declared node but an AND node keeps its betweenness.
NodeCentrality_KeepsChannels(type, betweenness) ==
    IF type # "AND" THEN betweenness ELSE 0

\* lines 159-163
NodeCentrality(type, betweenness) ==
    IF type # "AND" /\ type \notin {"physical_channel", "system_channel", "channel"}
    THEN betweenness
    ELSE 0

\* parse_dot, centrality being the dict betweenness_centrality returned for
\* the nodes that are not AND nodes (lines 157-158)
ParseDotFile(lines, centrality) ==
    LET read == ParseLines(lines, <<>>, <<>>)
        targets(n) == SelectSeq(read.edges, LAMBDA e : e.source = n)
        sources(n) == SelectSeq(read.edges, LAMBDA e : e.target = n)
    IN  [nodes |-> [n \in DOMAIN read.nodes |->
                      [Type |-> read.nodes[n],
                       Target |-> [i \in 1..Len(targets(n)) |-> targets(n)[i].target],
                       Source |-> [i \in 1..Len(sources(n)) |-> sources(n)[i].source],
                       centrality |->
                           NodeCentrality(read.nodes[n],
                                          IF n \in DOMAIN centrality
                                          THEN centrality[n] ELSE 0)]],
         edges |-> read.edges]

\* the nodes of the subgraph betweenness_centrality is computed on
NonAndNodes(lines) ==
    LET read == ParseLines(lines, <<>>, <<>>)
    IN  {n \in DOMAIN read.nodes : read.nodes[n] # "AND"}

RECURSIVE LineSeqs(_)
LineSeqs(k) ==
    IF k = 0 THEN {<<>>}
    ELSE LET prev == LineSeqs(k - 1)
         IN  prev \cup {Append(ls, l) : ls \in {p \in prev : Len(p) = k - 1}, l \in DotLines}

\* main of extract_dot_nodes.py is about to parse the file
InitParse ==
    /\ dot_lines \in LineSeqs(MaxLines)
    /\ graph_info = NoGraphInfo
    /\ pc = "dot"
    /\ nodes_info = <<>>
    /\ logic_ids = {}
    /\ edges = <<>>
    /\ predecessors_map = <<>>
    /\ target_id = None
    /\ forward_paths = <<>>
    /\ merged_forest = <<>>
    /\ final_trees = <<>>
    /\ all_paths_as_lists = <<>>
    /\ results = <<>>
    /\ call_stack = <<>>
    /\ all_backward_paths = <<>>
    /\ heap = <<>>
    /\ forest_roots = <<>>

\* parse_dot(dot_path); the result is written to the graph file
ParseDot ==
    /\ pc = "dot"
    /\ \E centrality \in [NonAndNodes(dot_lines) -> BetweennessValues] :
          graph_info' = ParseDotFile(dot_lines, centrality)
    /\ pc' = "parsed"
    /\ UNCHANGED <<nodes_info, logic_ids, edges, predecessors_map, target_id,
                   dot_lines, dfs_vars, heap_vars, forward_paths, merged_forest, final_trees,
                   all_paths_as_lists, results>>

\* DirectedGraphPathFinder(json_path) and load_graph_info(json_path) read the
\* graph file back
LoadGraph ==
    /\ pc = "parsed"
    /\ nodes_info' = [n \in DOMAIN graph_info.nodes |->
                         [Type |-> graph_info.nodes[n].Type,
                          centrality |-> graph_info.nodes[n].centrality]]
    /\ logic_ids' = {n \in DotIds : DotPrefix[n] = "LOGIC_"}
    /\ edges' = [i \in 1..Len(graph_info.edges) |->
                    [source |-> graph_info.edges[i].source,
                     target |-> graph_info.edges[i].target,
                     cost |-> graph_info.edges[i].cost,
                     stealth |-> graph_info.edges[i].stealth]]
    /\ predecessors_map' = BuildPredecessorMap(graph_info.edges)
    /\ pc' = "loaded_file"
    /\ UNCHANGED <<target_id, dot_lines, graph_info, dfs_vars, heap_vars, forward_paths,
                   merged_forest, final_trees, all_paths_as_lists, results>>

NextParse == ParseDot \/ LoadGraph

SpecParse == InitParse /\ [][NextParse]_vars

----------------------------------------------------------------------------
(* The scorer on its own: analyze_path(path, node_dict, edge_dict) on a     *)
(* nested path structure and a graph file.  A structure is a sequence of    *)
(* node ids in which one AND branch group may stand, at the front (as       *)
(* get_paths_as_lists builds it) or between two nodes; every branch of a    *)
(* group is such a structure again.  Its ids are 1, 2, ... in reading order.*)

\* the list of n ids, still unnumbered
Chain(n) == [i \in 1..n |-> Atom(0)]

\* the structures of exactly n ids, and the branch lists of exactly m ids
RECURSIVE Shapes(_), BranchLists(_)
Shapes(n) ==
    {List(Chain(n))} \cup
    UNION {UNION {{List(Chain(pre) \o <<List(bs)>> \o Chain(post)) :
                      bs \in BranchLists(n - pre - post)} :
                  post \in 1..(n - 1 - pre)} :
           pre \in 0..(n - 2)}
BranchLists(m) ==
    {<<b>> : b \in Shapes(m)} \cup
    UNION {{<<b>> \o rest : b \in Shapes(k), rest \in BranchLists(m - k)} :
           k \in 1..(m - 1)}

RECURSIVE AtomCount(_)
AtomCount(item) ==
    IF item.isList THEN SumSeq([i \in 1..Len(item.items) |-> AtomCount(item.items[i])])
    ELSE 1

\* the structure with its ids numbered from start in reading order
RECURSIVE Relabel(_, _)
Relabel(item, start) ==
    IF item.isList
    THEN List([i \in 1..Len(item.items) |->
                  Relabel(item.items[i],
                          start + SumSeq([j \in 1..(i - 1) |-> AtomCount(item.items[j])]))])
    ELSE Atom(start)

\* Graph files for the scorer.  Edge variety: a node of any of these kinds,
\* the file holding an edge record for every ordered pair of declared nodes
\* (a hop from or to an undeclared node has no record).
ScoreKinds == {KAction, KPhysical, KAnd, KUndeclared}

PairSeq(n) == [k \in 1..(n * n) |-> <<((k - 1) \div n) + 1, ((k - 1) % n) + 1>>]

DeclaredPairs(kinds, n) ==
    SelectSeq(PairSeq(n), LAMBDA pr : kinds[pr[1]] # KUndeclared /\ kinds[pr[2]] # KUndeclared)

\* Centrality variety: a node record holds a centrality (in thousandths), a
\* null centrality, or the id has no node record at all.
NoRecord == 0 - 2
CentralityValues == {None, 0, 750}

CentralityGraph(cents, n) ==
    [nodes_info |-> [m \in {k \in 1..n : cents[k] # NoRecord} |->
                        [Type |-> "action", centrality |-> cents[m]]],
     logic_ids |-> {},
     edges |-> <<>>,
     target |-> n]

\* the state in which main has the structure x to score, for the graph file g
Scoring(g, x) ==
    /\ nodes_info = g.nodes_info
    /\ logic_ids = g.logic_ids
    /\ edges = g.edges
    /\ predecessors_map = BuildPredecessorMap(g.edges)
    /\ target_id = g.target
    /\ pc = "listed"
    /\ forward_paths = <<>>
    /\ merged_forest = <<>>
    /\ final_trees = <<>>
    /\ all_paths_as_lists = <<x>>
    /\ results = <<>>
    /\ call_stack = <<>>
    /\ all_backward_paths = <<>>
    /\ dot_lines = <<>>
    /\ graph_info = NoGraphInfo
    /\ heap = <<>>
    /\ forest_roots = <<>>

InitScore ==
    \E n \in 1..MaxAtoms : \E shape \in Shapes(n) :
        \/ \E kinds \in [1..n -> ScoreKinds] :
              Scoring(Graph(kinds, DeclaredPairs(kinds, n), n), Relabel(shape, 1))
        \/ \E cents \in [1..n -> CentralityValues \cup {NoRecord}] :
              Scoring(CentralityGraph(cents, n), Relabel(shape, 1))

SpecScore == InitScore /\ [][AnalyzePaths]_vars

----------------------------------------------------------------------------
(* find_all_paths_to_target step by step: one frame of call_stack per      *)
(* active call of _find_paths_recursive.  A frame holds the call's         *)
(* arguments, the ids its loop recurses into (iter), the path it passes    *)
(* on (acc), the index of its next recursive call (idx, 0 before the body  *)
(* has run), whether it is in the AND case and the length of               *)
(* all_backward_paths when it was called (base).                           *)

Frame(node, path, base) ==
    [current_node_id |-> node, path_from_target |-> path, idx |-> 0,
     iter |-> <<>>, acc |-> <<>>, is_and_case |-> FALSE, base |-> base]

Top == call_stack[Len(call_stack)]
Pop == SubSeq(call_stack, 1, Len(call_stack) - 1)

\* lines 104-110: the unknown-target check and the first call
DFSStart ==
    /\ pc = "loaded"
    /\ IF target_id \notin DOMAIN nodes_info
       THEN /\ pc' = "searched"
            /\ call_stack' = <<>>
       ELSE /\ pc' = "searching"
            /\ call_stack' = <<Frame(target_id, <<>>, 0)>>
    /\ UNCHANGED <<graph_vars, heap_vars, all_backward_paths, forward_paths, merged_forest,
                   final_trees, all_paths_as_lists, results>>

\* lines 74-95: the body of a call up to its loop
DFSEnter ==
    /\ pc = "searching"
    /\ call_stack # <<>>
    /\ Top.idx = 0
    /\ LET f == Top
           new_path_from_target == <<f.current_node_id>> \o f.path_from_target
           predecessors == Predecessors(f.current_node_id)
           is_and_case == Len(predecessors) = 1 /\ IsAndType(predecessors[1])
           path_with_and_node == <<predecessors[1]>> \o new_path_from_target
           and_inputs == Predecessors(predecessors[1])
       IN  IF CycleGuard(f.current_node_id, f.path_from_target)
           THEN /\ all_backward_paths' = Append(all_backward_paths, f.path_from_target)
                /\ call_stack' = Pop
           ELSE IF predecessors = <<>>
           THEN /\ all_backward_paths' = Append(all_backward_paths, new_path_from_target)
                /\ call_stack' = Pop
           ELSE IF is_and_case /\ and_inputs = <<>>
           THEN /\ all_backward_paths' = Append(all_backward_paths, path_with_and_node)
                /\ call_stack' = Pop
           ELSE /\ all_backward_paths' = all_backward_paths
                /\ call_stack' =
                     [call_stack EXCEPT ![Len(call_stack)] =
                        [f EXCEPT !.idx = 1,
                                  !.is_and_case = is_and_case,
                                  !.iter = IF is_and_case THEN and_inputs ELSE predecessors,
                                  !.acc = IF is_and_case THEN path_with_and_node
                                          ELSE new_path_from_target]]
    /\ UNCHANGED <<graph_vars, heap_vars, pc, forward_paths, merged_forest, final_trees,
                   all_paths_as_lists, results>>

\* Mutant: in the AND case the inputs are searched from the path without the
\* gate.
DFSCall_DropsGate ==
    /\ pc = "searching"
    /\ call_stack # <<>>
    /\ Top.idx >= 1
    /\ Top.idx <= Len(Top.iter)
    /\ call_stack' =
         Append([call_stack EXCEPT ![Len(call_stack)].idx = @ + 1],
                Frame(Top.iter[Top.idx],
                      IF Top.is_and_case THEN Tail(Top.acc) ELSE Top.acc,
                      Len(all_backward_paths)))
    /\ UNCHANGED <<graph_vars, heap_vars, pc, all_backward_paths, forward_paths, merged_forest,
                   final_trees, all_paths_as_lists, results>>

\* lines 96-97 and 99-100: the next recursive call of the loop
DFSCall ==
    /\ pc = "searching"
    /\ call_stack # <<>>
    /\ Top.idx >= 1
    /\ Top.idx <= Len(Top.iter)
    /\ call_stack' =
         Append([call_stack EXCEPT ![Len(call_stack)].idx = @ + 1],
                Frame(Top.iter[Top.idx], Top.acc, Len(all_backward_paths)))
    /\ UNCHANGED <<graph_vars, heap_vars, pc, all_backward_paths, forward_paths, merged_forest,
                   final_trees, all_paths_as_lists, results>>

\* the loop is exhausted: the call returns
DFSReturn ==
    /\ pc = "searching"
    /\ call_stack # <<>>
    /\ Top.idx > Len(Top.iter)
    /\ Top.idx >= 1
    /\ call_stack' = Pop
    /\ UNCHANGED <<graph_vars, heap_vars, pc, all_backward_paths, forward_paths, merged_forest,
                   final_trees, all_paths_as_lists, results>>

\* lines 112-114: the first call has returned; every path is reversed
DFSFinish ==
    /\ pc = "searching"
    /\ call_stack = <<>>
    /\ forward_paths' = [i \in 1..Len(all_backward_paths) |-> Reverse(all_backward_paths[i])]
    /\ pc' = "searched"
    /\ UNCHANGED <<graph_vars, heap_vars, dfs_vars, merged_forest, final_trees,
                   all_paths_as_lists, results>>

InitDFS == \E t \in Ids : \E g \in GeneralGraphs(t) : Loaded(g)

NextDFS == DFSStart \/ DFSEnter \/ DFSCall \/ DFSReturn \/ DFSFinish

\* The search is one sequential computation: a step that can be taken is taken.
SpecDFS == InitDFS /\ [][NextDFS]_vars /\ WF_vars(NextDFS)

\* The step-by-step search returns what FindAllPathsToTarget computes.
DFSAgrees == pc = "searched" => forward_paths = FindAllPathsToTarget(target_id)

----------------------------------------------------------------------------
(* The tree stages on their own: _build_forest_from_paths on any list of   *)
(* forward paths, then the loop of get_paths_as_lists over the trees of    *)
(* the forest (_split_tree_at_or_nodes) and the conversion of the split    *)
(* trees.  The ids 1..NumGates are of Type AND.                            *)

PathIds == 1..NumPathIds

\* the id sequences of at most k ids, the empty one included
RECURSIVE IdSeqs(_)
IdSeqs(k) ==
    IF k = 0 THEN {<<>>}
    ELSE LET prev == IdSeqs(k - 1)
         IN  prev \cup {Append(p, n) : p \in {q \in prev : Len(q) = k - 1}, n \in PathIds}

\* the lists of at most k forward paths
RECURSIVE PathLists(_)
PathLists(k) ==
    IF k = 0 THEN {<<>>}
    ELSE LET prev == PathLists(k - 1)
         IN  prev \cup {Append(ps, p) : ps \in {q \in prev : Len(q) = k - 1},
                                        p \in IdSeqs(MaxPathLen)}

\* the dicts {'id': ..., 'children': [...]} of the given trees as objects of
\* the heap h: an object holds the addresses of its children
RECURSIVE AllocTree(_, _), AllocTrees(_, _, _)
AllocTree(h, tree) ==
    LET r == AllocTrees(h, tree.children, 1)
    IN  [heap |-> Append(r.heap, [id |-> tree.id, children |-> r.addrs]),
         addrs |-> <<Len(r.heap) + 1>>]
AllocTrees(h, trees, i) ==
    IF i > Len(trees) THEN [heap |-> h, addrs |-> <<>>]
    ELSE LET a == AllocTree(h, trees[i])
             rest == AllocTrees(a.heap, trees, i + 1)
         IN  [heap |-> rest.heap, addrs |-> a.addrs \o rest.addrs]

\* the tree an object of the heap stands for
RECURSIVE ReadTree(_, _)
ReadTree(h, a) ==
    [id |-> h[a].id,
     children |-> [i \in 1..Len(h[a].children) |-> ReadTree(h, h[a].children[i])]]

\* _split_tree_at_or_nodes(node) on the heap h, node being the object at
\* address a: the heap after the call and the addresses of the trees returned
RECURSIVE SplitOnHeap(_, _), SplitEachOnHeap(_, _, _)

\* Mutant: an AND node is rebuilt in place: its own dict gets the split
\* children and is returned.
SplitOnHeap_InPlace(h, a) ==
    IF h[a].children = <<>> THEN [heap |-> h, addrs |-> <<a>>]
    ELSE LET r == SplitEachOnHeap(h, h[a].children, 1)
             n == Len(r.addrs)
         IN  IF IsAndType(h[a].id)
             THEN [heap |-> [r.heap EXCEPT ![a].children = r.addrs], addrs |-> <<a>>]
             ELSE [heap |-> r.heap \o [i \in 1..n |->
                                         [id |-> h[a].id, children |-> <<r.addrs[i]>>]],
                   addrs |-> [i \in 1..n |-> Len(r.heap) + i]]

\* Mutant: a node that is not an AND node keeps all its split children in one
\* tree as well.
SplitOnHeap_KeepsOrChildren(h, a) ==
    IF h[a].children = <<>> THEN [heap |-> h, addrs |-> <<a>>]
    ELSE LET r == SplitEachOnHeap(h, h[a].children, 1)
         IN  [heap |-> Append(r.heap, [id |-> h[a].id, children |-> r.addrs]),
              addrs |-> <<Len(r.heap) + 1>>]

SplitOnHeap(h, a) ==
    IF h[a].children = <<>> THEN [heap |-> h, addrs |-> <<a>>]
    ELSE LET r == SplitEachOnHeap(h, h[a].children, 1)
             n == Len(r.addrs)
         IN  IF IsAndType(h[a].id)
             THEN [heap |-> Append(r.heap, [id |-> h[a].id, children |-> r.addrs]),
                   addrs |-> <<Len(r.heap) + 1>>]
             ELSE [heap |-> r.heap \o [i \in 1..n |->
                                         [id |-> h[a].id, children |-> <<r.addrs[i]>>]],
                   addrs |-> [i \in 1..n |-> Len(r.heap) + i]]
\* the loops of lines 157-158, 162-163 and 247-248: extend by the split of
\* every tree in turn
SplitEachOnHeap(h, children, i) ==
    IF i > Len(children) THEN [heap |-> h, addrs |-> <<>>]
    ELSE LET split == SplitOnHeap(h, children[i])
             rest == SplitEachOnHeap(split.heap, children, i + 1)
         IN  [heap |-> rest.heap, addrs |-> split.addrs \o rest.addrs]

\* a finder whose ids 1..NumGates are AND nodes has the list of forward paths
InitTrees ==
    /\ forward_paths \in PathLists(MaxPaths)
    /\ nodes_info = [n \in PathIds |->
                        [Type |-> IF n <= NumGates THEN "AND" ELSE "action",
                         centrality |-> 0]]
    /\ logic_ids = {n \in PathIds : n <= NumGates}
    /\ edges = <<>>
    /\ predecessors_map = <<>>
    /\ target_id = None
    /\ pc = "paths"
    /\ merged_forest = <<>>
    /\ final_trees = <<>>
    /\ all_paths_as_lists = <<>>
    /\ results = <<>>
    /\ call_stack = <<>>
    /\ all_backward_paths = <<>>
    /\ dot_lines = <<>>
    /\ graph_info = NoGraphInfo
    /\ heap = <<>>
    /\ forest_roots = <<>>

\* merged_forest = self._build_forest_from_paths(paths)
BuildForest ==
    /\ pc = "paths"
    /\ LET forest == BuildForestFromPaths(forward_paths)
           made == AllocTrees(<<>>, forest, 1)
       IN  /\ merged_forest' = forest
           /\ heap' = made.heap
           /\ forest_roots' = made.addrs
    /\ pc' = "forest"
    /\ UNCHANGED <<graph_vars, dfs_vars, forward_paths, final_trees,
                   all_paths_as_lists, results>>

\* lines 246-248: final_trees.extend(self._split_tree_at_or_nodes(tree)) for
\* every tree of the forest
SplitTrees ==
    /\ pc = "forest"
    /\ LET split == SplitEachOnHeap(heap, forest_roots, 1)
       IN  /\ heap' = split.heap
           /\ final_trees' = [i \in 1..Len(split.addrs) |->
                                 ReadTree(split.heap, split.addrs[i])]
    /\ pc' = "split"
    /\ UNCHANGED <<graph_vars, dfs_vars, forest_roots, forward_paths, merged_forest,
                   all_paths_as_lists, results>>

\* lines 251-255: every split tree is converted and reversed
ConvertTrees ==
    /\ pc = "split"
    /\ all_paths_as_lists' = PathsAsLists(final_trees)
    /\ pc' = "converted"
    /\ UNCHANGED <<graph_vars, dfs_vars, heap_vars, forward_paths, merged_forest,
                   final_trees, results>>

NextTrees == BuildForest \/ SplitTrees \/ ConvertTrees

SpecTrees == InitTrees /\ [][NextTrees]_vars

\* The split on the heap returns the trees SplitTreeAtOrNodes computes.
HeapSplitAgrees ==
    pc \in {"split", "converted"} => final_trees = SplitForest(merged_forest)

----------------------------------------------------------------------------
(* Vocabulary of the properties. *)

Declared(n) == n \in DOMAIN nodes_info

Searched == pc \in {"searched", "listed", "scored"}
Listed == pc \in {"listed", "scored"}

SeqSet(s) == {s[i] : i \in 1..Len(s)}

\* the ids of a tree, and the set of its subtrees (the tree included)
RECURSIVE TreeIds(_)
TreeIds(tree) ==
    {tree.id} \cup UNION {TreeIds(tree.children[i]) : i \in 1..Len(tree.children)}

RECURSIVE Subtrees(_)
Subtrees(tree) ==
    {tree} \cup UNION {Subtrees(tree.children[i]) : i \in 1..Len(tree.children)}

\* the pairs <<p, n>> of a tree in which p is a child of n: the tree is rooted
\* at the target, so p comes immediately before n on the way to the target
RECURSIVE TreeEdges(_)
TreeEdges(tree) ==
    {<<tree.children[i].id, tree.id>> : i \in 1..Len(tree.children)}
        \cup UNION {TreeEdges(tree.children[i]) : i \in 1..Len(tree.children)}

\* the ids of a nested path list
RECURSIVE ListIds(_)
ListIds(item) ==
    IF item.isList THEN UNION {ListIds(item.items[i]) : i \in 1..Len(item.items)}
    ELSE {item.id}

\* every node of the graph, declared or named by an edge
GraphNodes ==
    DOMAIN nodes_info \cup {edges[i].source : i \in 1..Len(edges)}
                      \cup {edges[i].target : i \in 1..Len(edges)}

\* s ends with the sequence suffix
EndsWith(s, suffix) ==
    /\ Len(suffix) <= Len(s)
    /\ SubSeq(s, Len(s) - Len(suffix) + 1, Len(s)) = suffix

----------------------------------------------------------------------------
\* C1: a declared target without predecessors has exactly one path, the
\* one-element sequence of the target itself.
C1_SourceTargetSinglePath ==
    (Searched /\ Declared(target_id) /\ Predecessors(target_id) = <<>>)
        => forward_paths = <<<<target_id>>>>

\* the target is a source of a graph that has edges, and the search has run
C1_Witness ==
    /\ pc = "searched"
    /\ Declared(target_id)
    /\ Predecessors(target_id) = <<>>
    /\ \E i \in 1..Len(edges) : edges[i].source = target_id

\* C2: for a target id that no node record declares, also one that is an
\* endpoint of an edge, find_all_paths_to_target and get_paths_as_lists return
\* the empty list.
C2_UnknownTargetEmpty ==
    ~Declared(target_id) =>
        /\ Searched => forward_paths = <<>>
        /\ Listed => all_paths_as_lists = <<>>

\* get_paths_as_lists has returned for an undeclared target that has
\* predecessors in the edge list
C2_Witness ==
    /\ pc = "listed"
    /\ ~Declared(target_id)
    /\ Len(Predecessors(target_id)) >= 2

----------------------------------------------------------------------------
(* Linear chains.  BackChain(n, seen) is the chain n1, ..., n that ends in *)
(* n when n is reached only through a linear chain: every node of it has   *)
(* exactly one incoming edge record, n1 has none, and no node of it is in  *)
(* seen; it is <<>> otherwise.                                             *)

RECURSIVE BackChain(_, _)
BackChain(n, seen) ==
    IF n \in seen THEN <<>>
    ELSE LET ps == Predecessors(n)
         IN  IF ps = <<>> THEN <<n>>
             ELSE IF Len(ps) # 1 THEN <<>>
             ELSE LET rest == BackChain(ps[1], seen \cup {n})
                  IN  IF rest = <<>> THEN <<>> ELSE Append(rest, n)

\* the edge records along a chain, and the hops between its nodes
ChainEdges(chain) == [i \in 1..(Len(chain) - 1) |-> EdgeDictGet(chain[i], chain[i + 1])]
ChainHops(chain) == [i \in 1..(Len(chain) - 1) |-> Hop(Atom(chain[i]), Atom(chain[i + 1]))]

DefinedCosts(es) ==
    LET d == SelectSeq(es, LAMBDA e : e.cost # None)
    IN  [i \in 1..Len(d) |-> d[i].cost]
DefinedStealth(es) ==
    LET d == SelectSeq(es, LAMBDA e : e.stealth # None)
    IN  [i \in 1..Len(d) |-> d[i].stealth]

LogicCount(ids) == Cardinality({n \in ids : n \in logic_ids})

TargetChain == BackChain(target_id, {})

\* the declared target is reached only through a linear chain of at least one
\* edge, and its paths have been scored
ChainScored == pc = "scored" /\ Declared(target_id) /\ Len(TargetChain) >= 2

\* C3 as stated: one path; its hops are the chain's edges in order; cost is
\* the sum of the edge costs, stealth their mean (1000 * mean, as stealth is
\* kept in thousandths), length the number of edges.
C3_AsStated ==
    ChainScored =>
        LET es == ChainEdges(TargetChain)
            sv == DefinedStealth(es)
        IN  /\ Len(results) = 1
            /\ results[1].hops = ChainHops(TargetChain)
            /\ results[1].cost = SumSeq(DefinedCosts(es))
            /\ IF sv = <<>> THEN results[1].stealth = None
               ELSE results[1].stealth * Len(sv) = 1000 * SumSeq(sv)
            /\ results[1].length = Len(es)

\* C3, amended: one path; its hops are the chain's edges in source-to-target
\* order; cost is the sum of the edge costs that are not null; stealth is the
\* mean of the stealth values that are not null, rounded to three decimals
\* (null when there are none); length is the number of edges minus the number
\* of chain nodes whose id starts with LOGIC_.
C3_ChainScore ==
    ChainScored =>
        LET es == ChainEdges(TargetChain)
            sv == DefinedStealth(es)
        IN  /\ Len(results) = 1
            /\ results[1].hops = ChainHops(TargetChain)
            /\ results[1].cost = SumSeq(DefinedCosts(es))
            /\ results[1].stealth =
                 IF sv = <<>> THEN None ELSE Round3(SumSeq(sv), Len(sv))
            /\ results[1].length = Len(es) - LogicCount(SeqSet(TargetChain))

\* a chain of three edges with a LOGIC_ node in it and a mean stealth that
\* needs rounding has been scored
C3_Witness ==
    /\ ChainScored
    /\ Len(TargetChain) = 4
    /\ LogicCount(SeqSet(TargetChain)) >= 1
    /\ LET sv == DefinedStealth(ChainEdges(TargetChain))
       IN  sv # <<>> /\ results[1].stealth * Len(sv) # 1000 * SumSeq(sv)
    /\ results[1].cost >= 5

----------------------------------------------------------------------------
(* AND joins: the target's sole predecessor is an AND gate fed by two      *)
(* disjoint linear branches.                                               *)

JoinGate == Predecessors(target_id)[1]
JoinBranch(k) == BackChain(Predecessors(JoinGate)[k], {target_id, JoinGate})

AndJoinScored ==
    /\ pc = "scored"
    /\ Declared(target_id)
    /\ Len(Predecessors(target_id)) = 1
    /\ IsAndType(JoinGate)
    /\ Len(Predecessors(JoinGate)) = 2
    /\ JoinBranch(1) # <<>>
    /\ JoinBranch(2) # <<>>
    /\ SeqSet(JoinBranch(1)) \cap SeqSet(JoinBranch(2)) = {}

\* the cost of all hops of both branches (the hop into the gate included)
\* plus the hop from the gate to the target
JoinCost ==
    SumSeq(DefinedCosts(ChainEdges(Append(JoinBranch(1), JoinGate))))
      + SumSeq(DefinedCosts(ChainEdges(Append(JoinBranch(2), JoinGate))))
      + SumSeq(DefinedCosts(<<EdgeDictGet(JoinGate, target_id)>>))

JoinNodes == SeqSet(JoinBranch(1)) \cup SeqSet(JoinBranch(2)) \cup {JoinGate, target_id}

----------------------------------------------------------------------------
(* AND joins and OR alternatives in the returned path-trees. *)

\* g is an AND gate that is the sole predecessor of some node
SoleAndGate(g) ==
    IsAndType(g) /\ \E n \in GraphNodes : SeqSet(Predecessors(n)) = {g}

\* C5: for every node whose sole predecessor is an AND gate g, every path
\* structure returned by get_paths_as_lists that contains g also contains every
\* direct predecessor of g.
C5_AndInputsTogether ==
    Listed =>
        \A i \in 1..Len(all_paths_as_lists) :
            \A g \in ListIds(all_paths_as_lists[i]) :
                SoleAndGate(g) =>
                    SeqSet(Predecessors(g)) \subseteq ListIds(all_paths_as_lists[i])

\* a returned structure holds an AND gate, other than the target, that is the
\* sole predecessor of a node and has two different inputs
C5_Witness ==
    /\ pc = "listed"
    /\ \E i \in 1..Len(all_paths_as_lists) :
          \E g \in ListIds(all_paths_as_lists[i]) :
              /\ SoleAndGate(g)
              /\ g # target_id
              /\ Cardinality(SeqSet(Predecessors(g))) >= 2

\* C6: for every node n that is not an AND gate and has two or more direct
\* predecessors, no single path-tree returned by get_paths_as_lists holds two
\* different predecessors of n each immediately followed by n.
C6_OrAlternativesSeparate ==
    Listed =>
        \A i \in 1..Len(final_trees) : \A n \in GraphNodes :
            (~IsAndType(n) /\ Cardinality(SeqSet(Predecessors(n))) >= 2) =>
                Cardinality({p \in SeqSet(Predecessors(n)) :
                                <<p, n>> \in TreeEdges(final_trees[i])}) <= 1

----------------------------------------------------------------------------
(* The sequences find_all_paths_to_target returns. *)

\* the node has no predecessor, or one that occurs in the sequence
SourceOrCut(n, path) ==
    Predecessors(n) = <<>> \/ \E p \in SeqSet(Predecessors(n)) : InSeq(p, path)

----------------------------------------------------------------------------
(* The recursion of _find_paths_recursive, over the steps of SpecDFS. *)

\* the calls of frame k's loop that have returned
ReturnedCalls(k) ==
    IF k = Len(call_stack) THEN call_stack[k].idx - 1 ELSE call_stack[k].idx - 2

DepthInvariant ==
    /\ Len(call_stack) <= Cardinality(GraphNodes) + 1
    /\ \A k \in 1..Len(call_stack) :
          LET f == call_stack[k]
          IN  /\ k < Len(call_stack) =>
                    /\ ~InSeq(f.current_node_id, f.path_from_target)
                    /\ SeqSet(f.path_from_target) \cup {f.current_node_id}
                          \subseteq SeqSet(call_stack[k + 1].path_from_target)

\* C9: find_all_paths_to_target terminates on every graph, cycles, self-loops
\* and cycles through AND gates included, and the recursion depth never
\* exceeds the number of distinct nodes plus one.
C9_Terminates == []DepthInvariant /\ <>(pc = "searched")

\* the cycle guard is about to cut a branch that runs through an AND gate,
\* three calls deep
C9_Witness ==
    /\ pc = "searching"
    /\ Len(call_stack) >= 3
    /\ Top.idx = 0
    /\ InSeq(Top.current_node_id, Top.path_from_target)
    /\ \E g \in SeqSet(Top.path_from_target) : IsAndType(g)

----------------------------------------------------------------------------
(* _split_tree_at_or_nodes on trees without an OR branch point. *)

\* no node of the tree that is not an AND gate has more than one child
NoOrBranch(tree) ==
    \A s \in Subtrees(tree) : IsAndType(s.id) \/ Len(s.children) <= 1

\* the trees built for the target, before and after the split, and all their
\* subtrees
BuiltTrees ==
    UNION {Subtrees(merged_forest[i]) : i \in 1..Len(merged_forest)}
        \cup UNION {Subtrees(final_trees[i]) : i \in 1..Len(final_trees)}

\* C10: for every tree in which no node other than an AND gate has more than
\* one child, _split_tree_at_or_nodes returns exactly one tree, equal to the
\* input.
C10_SplitWithoutOrBranch ==
    \A tree \in BuiltTrees : NoOrBranch(tree) => SplitTreeAtOrNodes(tree) = <<tree>>

\* a tree without OR branch point in which an AND gate has two different
\* children, one of them with a child of its own
C10_Witness ==
    /\ pc = "listed"
    /\ \E tree \in BuiltTrees :
          /\ NoOrBranch(tree)
          /\ \E s \in Subtrees(tree) :
                /\ IsAndType(s.id)
                /\ Len(s.children) >= 2
                /\ s.children[1] # s.children[2]
                /\ \E c \in 1..Len(s.children) : s.children[c].children # <<>>

----------------------------------------------------------------------------
(* The metrics of a nested path structure. *)

Scored == pc = "scored"

\* an AND branch group: a list whose items are all lists
IsGroup(item) == item.isList /\ item.items # <<>> /\ AllLists(item.items)

BranchOrders(n) == {f \in [1..n -> 1..n] : \A i, j \in 1..n : f[i] = f[j] => i = j}

\* every structure obtained by reordering the sibling branches of any of the
\* groups of the structure
RECURSIVE Permuted(_), PermutedItems(_)
Permuted(item) ==
    IF ~item.isList THEN {item}
    ELSE LET n == Len(item.items)
             picks == PermutedItems(item.items)
         IN  IF IsGroup(item)
             THEN {List([i \in 1..n |-> f[p[i]]]) : f \in picks, p \in BranchOrders(n)}
             ELSE {List(f) : f \in picks}
PermutedItems(items) ==
    IF items = <<>> THEN {<<>>}
    ELSE {<<h>> \o t : h \in Permuted(Head(items)), t \in PermutedItems(Tail(items))}

\* C11: for every nested path structure and every permutation of the sibling
\* branches inside any of its AND branch groups, calc_path_cost returns the
\* same total cost for the permuted structure as for the original.
C11_CostPermutationInvariant ==
    Scored =>
        \A i \in 1..Len(all_paths_as_lists) :
            \A v \in Permuted(all_paths_as_lists[i]) :
                CalcPathCost(v) = results[i].cost

\* a structure has been scored whose group has two branches that end in edges
\* of different cost, so that reordering them reorders unequal terms
C11_Witness ==
    /\ Scored
    /\ \E g \in 1..Len(all_paths_as_lists[1].items) :
          LET grp == all_paths_as_lists[1].items[g]
              hops == results[1].hops
          IN  /\ IsGroup(grp)
              /\ Len(grp.items) >= 2
              /\ Cardinality(Permuted(all_paths_as_lists[1])) >= 2
              /\ \E a, b \in 1..Len(hops) :
                    /\ hops[a].dst = hops[b].dst
                    /\ HopEdge(hops[a]).cost = 5
                    /\ HopEdge(hops[b]).cost = 1

\* the structure scored, its result and its hops as pairs of ids
ThePath == all_paths_as_lists[1]
TheResult == results[1]
HopPairs == [k \in 1..Len(TheResult.hops) |->
                <<TheResult.hops[k].src.id, TheResult.hops[k].dst.id>>]

\* the edge records of an ordered pair of ids
RecordsOf(pair) ==
    {e \in {edges[k] : k \in 1..Len(edges)} : e.source = pair[1] /\ e.target = pair[2]}

\* the indices of the hops whose pair has a record with a cost, with a stealth
CostHops == {k \in 1..Len(HopPairs) : \E e \in RecordsOf(HopPairs[k]) : e.cost # None}
StealthHops == {k \in 1..Len(HopPairs) : \E e \in RecordsOf(HopPairs[k]) : e.stealth # None}

\* the sum of f over a finite set of indices
RECURSIVE SumOver(_, _)
SumOver(S, f) ==
    IF S = {} THEN 0
    ELSE LET k == CHOOSE x \in S : TRUE IN f[k] + SumOver(S \ {k}, f)

\* the scorer files of the model hold one record for a pair at most
HopCost == [k \in CostHops |-> (CHOOSE e \in RecordsOf(HopPairs[k]) : TRUE).cost]
HopStealth == [k \in StealthHops |-> (CHOOSE e \in RecordsOf(HopPairs[k]) : TRUE).stealth]

\* C13: calc_path_cost is the sum of edge.cost over the extracted hops whose
\* pair has an edge record with a cost; a hop with no record or with a null
\* cost adds nothing.
C13_CostSumsDefinedHops ==
    Scored => TheResult.cost = SumOver(CostHops, HopCost)

\* the structure scored has a hop with a cost, a hop whose record has a null
\* cost and a hop without a record
C13_Witness ==
    /\ Scored
    /\ TheResult.cost >= 5
    /\ \E k \in 1..Len(HopPairs) : RecordsOf(HopPairs[k]) = {}
    /\ \E k \in 1..Len(HopPairs) :
          RecordsOf(HopPairs[k]) # {} /\ k \notin CostHops

RECURSIVE FirstsOf(_), LastsOf(_)
FirstsOf(item) ==
    IF ~item.isList THEN {item.id}
    ELSE IF IsGroup(item) THEN UNION {FirstsOf(item.items[i]) : i \in 1..Len(item.items)}
    ELSE FirstsOf(item.items[1])
LastsOf(item) ==
    IF ~item.isList THEN {item.id}
    ELSE IF IsGroup(item) THEN UNION {LastsOf(item.items[i]) : i \in 1..Len(item.items)}
    ELSE LastsOf(item.items[Len(item.items)])

\* the largest number of a finite set of numbers
SetMax(S) == CHOOSE m \in S : \A v \in S : v <= m

\* the number of hops on the longest way along the extracted hops from id x
RECURSIVE HopDepth(_)
HopDepth(x) ==
    LET next == {HopPairs[k][2] : k \in {j \in 1..Len(HopPairs) : HopPairs[j][1] = x}}
    IN  IF next = {} THEN 0 ELSE 1 + SetMax({HopDepth(y) : y \in next})

\* the hop count of the structure: the hops of its longest route
LongestRoute == SetMax({HopDepth(x) : x \in FirstsOf(ThePath)})

\* N: a node counts 1, a sequence the sum of its items, a branch group the
\* largest of its branches
RECURSIVE NodeCount(_)
NodeCount(item) ==
    IF ~item.isList THEN 1
    ELSE LET counts == [i \in 1..Len(item.items) |-> NodeCount(item.items[i])]
         IN  IF IsGroup(item)
             THEN SetMax({counts[i] : i \in 1..Len(item.items)})
             ELSE SumOver(1..Len(item.items), counts)

\* L: the ids of the structure that start with LOGIC_
LogicNodes == Cardinality(ListIds(ThePath) \cap logic_ids)

CarriedValues ==
    {nodes_info[n].centrality : n \in ListIds(ThePath) \cap DOMAIN nodes_info} \ {None}

\* C16: calc_path_centrality is the maximum centrality over all ids of the
\* structure, at any nesting depth, that carry a value; ids without a node
\* record or without a value are ignored, and the result is null exactly when
\* no id carries a value.
C16_CentralityIsMaximum ==
    Scored =>
        IF CarriedValues = {} THEN TheResult.centrality = None
        ELSE /\ TheResult.centrality \in CarriedValues
             /\ \A v \in CarriedValues : v <= TheResult.centrality

\* the largest value sits inside a branch group, next to an id without a
\* record, an id with a null value and an id with a smaller value
C16_Witness ==
    /\ Scored
    /\ TheResult.centrality = 750
    /\ \E n \in ListIds(ThePath) : n \notin DOMAIN nodes_info
    /\ \E n \in ListIds(ThePath) \cap DOMAIN nodes_info : nodes_info[n].centrality = None
    /\ \E g \in 1..Len(ThePath.items) :
          /\ IsGroup(ThePath.items[g])
          /\ \A n \in ListIds(ThePath) \cap DOMAIN nodes_info :
                nodes_info[n].centrality = 750 => n \in ListIds(ThePath.items[g])
    /\ \E n \in ListIds(ThePath) \cap DOMAIN nodes_info : nodes_info[n].centrality = 0

\* the hops of an item: those inside its items and, in a sequence, from every
\* last id of an item to every first id of the item after it
RECURSIVE BridgedHops(_)
BridgedHops(item) ==
    IF ~item.isList THEN {}
    ELSE UNION {BridgedHops(item.items[i]) : i \in 1..Len(item.items)}
         \cup (IF IsGroup(item) THEN {}
               ELSE UNION {LastsOf(item.items[i]) \X FirstsOf(item.items[i + 1]) :
                              i \in 1..(Len(item.items) - 1)})

\* [[['A','B'],['C']],'D','E','F'] with A..F numbered 1..6
DocExample ==
    List(<<List(<<List(<<Atom(1), Atom(2)>>), List(<<Atom(3)>>)>>),
           Atom(4), Atom(5), Atom(6)>>)

\* C17: extract_hops bridges branch groups: the hop list holds (p, f) for the
\* first node f of every branch, (e, s) for the last node e of every branch
\* and the consecutive pairs inside each branch, recursively, each once and
\* nothing else; the documented example yields A->B, B->D, C->D, D->E, E->F.
C17_HopsBridgeGroups ==
    /\ Scored =>
          /\ SeqSet(HopPairs) = BridgedHops(ThePath)
          /\ Len(HopPairs) = Cardinality(BridgedHops(ThePath))
    /\ ExtractHops(DocExample).hops =
          <<Hop(Atom(1), Atom(2)), Hop(Atom(2), Atom(4)), Hop(Atom(3), Atom(4)),
            Hop(Atom(4), Atom(5)), Hop(Atom(5), Atom(6))>>

\* a branch group of two branches between a node p and a node s has been
\* walked: p leads to both branches and both lead to s
C17_Witness ==
    /\ Scored
    /\ Len(ThePath.items) = 3
    /\ ~ThePath.items[1].isList
    /\ IsGroup(ThePath.items[2])
    /\ Len(ThePath.items[2].items) = 2
    /\ ~ThePath.items[3].isList
    /\ Len(HopPairs) = 4

\* the structure scored holds no LOGIC_ id and has a branch group in its
\* sequence
BranchedNoLogic ==
    /\ Scored
    /\ LogicNodes = 0
    /\ \E g \in 1..Len(ThePath.items) : IsGroup(ThePath.items[g])

\* max(length of each branch) of the groups of the sequence plus the count of
\* its remaining nodes
BranchMaxPlusRest ==
    SumOver(1..Len(ThePath.items),
            [g \in 1..Len(ThePath.items) |->
                IF IsGroup(ThePath.items[g])
                THEN SetMax({NodeCount(ThePath.items[g].items[b]) :
                                b \in 1..Len(ThePath.items[g].items)})
                ELSE 1])

DocExampleHasNoLogic == ListIds(DocExample) \cap logic_ids = {}

----------------------------------------------------------------------------
(* The hops of the structures get_paths_as_lists returns. *)

\* the hops of all scored structures
AllHops == UNION {SeqSet(results[i].hops) : i \in 1..Len(results)}

\* C18: every hop (x, y) extract_hops produces from a structure returned by
\* get_paths_as_lists is a pair of node ids with an edge record of source x
\* and target y, and the lookup of the pair finds a record of that edge.
C18_HopsAreGraphEdges ==
    Scored =>
        \A h \in AllHops :
            /\ ~h.src.isList /\ ~h.dst.isList
            /\ RecordsOf(<<h.src.id, h.dst.id>>) # {}
            /\ HopEdge(h) \in RecordsOf(<<h.src.id, h.dst.id>>)

\* a structure with an AND branch group of two branches, one of them of two
\* nodes or more, has been returned and scored
C18_Witness ==
    /\ Scored
    /\ \E i \in 1..Len(results) :
          LET grp == all_paths_as_lists[i].items[1]
          IN  /\ IsGroup(grp)
              /\ Len(grp.items) = 2
              /\ \E b \in 1..2 : Len(grp.items[b].items) >= 2
              /\ Len(results[i].hops) >= 4

----------------------------------------------------------------------------
(* The graph file parse_dot writes. *)

Parsed == pc \in {"parsed", "loaded_file"}

ZeroedTypes == {"AND", "physical_channel", "system_channel", "channel"}

\* C12: in the output of parse_dot every node of type AND and every node of
\* type physical_channel, system_channel or channel has centrality exactly 0,
\* whatever betweenness the graph gives it.
C12_GateAndChannelCentralityZero ==
    Parsed =>
        \A n \in DOMAIN graph_info.nodes :
            graph_info.nodes[n].Type \in ZeroedTypes => graph_info.nodes[n].centrality = 0

\* a file with a channel and an action joined by an edge has been parsed, and
\* the action has got a betweenness that is not 0
C12_Witness ==
    /\ pc = "parsed"
    /\ \E c, a \in DOMAIN graph_info.nodes :
          /\ graph_info.nodes[c].Type \in {"physical_channel", "system_channel", "channel"}
          /\ graph_info.nodes[a].Type = "action"
          /\ graph_info.nodes[a].centrality > 0
          /\ graph_info.nodes[c].Source # <<>> \/ graph_info.nodes[c].Target # <<>>

\* the Type of an id in the returned node list, "" for an id no line declares
FinalType(n) ==
    IF n \in DOMAIN graph_info.nodes THEN graph_info.nodes[n].Type ELSE ""

IsGate(n) == DotPrefix[n] = "LOGIC_"

\* the rule table on the endpoints of an edge
RuleTable(src, tgt) ==
    IF IsGate(src) THEN <<"explicit", 1, 1>>
    ELSE IF IsGate(tgt) THEN <<"explicit", None, None>>
    ELSE IF "physical_channel" \in {FinalType(src), FinalType(tgt)}
    THEN <<"physical_implicit", 5, 3>>
    ELSE IF "system_channel" \in {FinalType(src), FinalType(tgt)}
    THEN <<"system_implicit", 3, 2>>
    ELSE <<"explicit", 1, 1>>

\* C19: for every ordering of the node and edge declarations, parse_dot gives
\* each edge the type, cost and stealth of the rule table on its endpoint
\* types: gate source, else gate target, else a physical channel at either
\* end, else a system channel at either end, else explicit.
C19_RuleTableAnyOrder ==
    Parsed =>
        \A k \in 1..Len(graph_info.edges) :
            LET e == graph_info.edges[k]
            IN  <<e.type, e.cost, e.stealth>> = RuleTable(e.source, e.target)

\* C20: when the file declares the same ordered pair more than once, the edge
\* list parse_dot returns holds one record for the pair, and the predecessor
\* list built from it holds the source once.
C20_OneRecordPerPair ==
    pc = "loaded_file" =>
        /\ \A i, j \in 1..Len(graph_info.edges) :
              (/\ graph_info.edges[i].source = graph_info.edges[j].source
               /\ graph_info.edges[i].target = graph_info.edges[j].target) => i = j
        /\ \A t \in DOMAIN predecessors_map :
              \A i, j \in 1..Len(predecessors_map[t]) :
                  predecessors_map[t][i] = predecessors_map[t][j] => i = j

----------------------------------------------------------------------------
(* The sequences returned on acyclic graphs. *)

EdgePairs == {<<edges[i].source, edges[i].target>> : i \in 1..Len(edges)}

\* the nodes from which a node of S is reached over k edges at most, S included
RECURSIVE AncestorsOf(_, _)
AncestorsOf(S, k) ==
    IF k = 0 THEN S
    ELSE AncestorsOf(S \cup {e[1] : e \in {x \in EdgePairs : x[2] \in S}}, k - 1)

Acyclic ==
    \A n \in GraphNodes :
        n \notin AncestorsOf({e[1] : e \in {x \in EdgePairs : x[2] = n}}, NumNodes)

\* the directed walks of at most k nodes that end at t, written from their
\* first node to t
RECURSIVE WalksTo(_, _)
WalksTo(t, k) ==
    IF k = 1 THEN {<<t>>}
    ELSE LET prev == WalksTo(t, k - 1)
         IN  prev \cup UNION {{<<e[1]>> \o w : e \in {x \in EdgePairs : x[2] = w[1]}} :
                                 w \in {v \in prev : Len(v) = k - 1}}

\* the directed paths that start at a node with no predecessor and end at t
SourcePaths(t) ==
    {w \in WalksTo(t, NumNodes) : ~\E e \in EdgePairs : e[2] = w[1]}

AcyclicSearched == Searched /\ Declared(target_id) /\ Acyclic

C27_NoRepeatedNode ==
    Searched =>
        \A i \in 1..Len(forward_paths) :
            \A j, k \in 1..Len(forward_paths[i]) :
                forward_paths[i][j] = forward_paths[i][k] => j = k

----------------------------------------------------------------------------
(* The structures get_paths_as_lists returns for a graph. *)

\* the raw enumeration holds the same linear sequence more than once
RawDuplicates ==
    \E i, j \in 1..Len(forward_paths) : i # j /\ forward_paths[i] = forward_paths[j]

\* C22: get_paths_as_lists returns no two path structures that are equal by
\* node-id equality, also when the raw enumeration emits the same linear
\* sequence more than once.
C22_NoEqualStructures ==
    Listed =>
        \A i, j \in 1..Len(all_paths_as_lists) :
            all_paths_as_lists[i] = all_paths_as_lists[j] => i = j

\* a node with two different predecessors that are both cut by the cycle
\* guard gave the same raw sequence twice, and the structures have been
\* returned
C22_Witness ==
    /\ pc = "listed"
    /\ RawDuplicates
    /\ all_paths_as_lists # <<>>
    /\ \E n \in Ids :
          /\ Len(Predecessors(n)) = 2
          /\ Predecessors(n)[1] # Predecessors(n)[2]
          /\ \A k \in 1..2 : \E i \in 1..Len(forward_paths) :
                InSeq(Predecessors(n)[k], forward_paths[i])
                    /\ forward_paths[i][Len(forward_paths[i])] = n

----------------------------------------------------------------------------
(* The scores of the structures get_paths_as_lists returns for a graph. *)

\* C29: calc_path_length is non-negative on every structure returned by
\* get_paths_as_lists, also when LOGIC_ nodes occur in several branches of one
\* AND group and when the structure is a single LOGIC_ node.
C29_LengthNonNegative ==
    Scored => \A i \in 1..Len(results) : results[i].length >= 0

\* C30: for every structure returned by get_paths_as_lists the hop list of
\* extract_hops holds no (source, target) pair more than once, also when the
\* branches of an AND group share their first or last node.
C30_NoRepeatedHop ==
    Scored =>
        \A i \in 1..Len(results) :
            \A j, k \in 1..Len(results[i].hops) :
                (/\ results[i].hops[j].src = results[i].hops[k].src
                 /\ results[i].hops[j].dst = results[i].hops[k].dst) => j = k

----------------------------------------------------------------------------
(* The forest, the split trees and the converted lists of any path list. *)

ForestBuilt == pc \in {"forest", "split", "converted"}

\* the first nodes of the non-empty input paths
StartNodes ==
    {forward_paths[k][1] : k \in {j \in 1..Len(forward_paths) : forward_paths[j] # <<>>}}

ForestNodes == UNION {Subtrees(merged_forest[i]) : i \in 1..Len(merged_forest)}

\* C21: _build_forest_from_paths returns exactly one tree per distinct first
\* node among the non-empty input paths, and in every returned tree no node
\* has two children with the same id.
C21_OneTreePerStartNode ==
    ForestBuilt =>
        /\ {merged_forest[i].id : i \in 1..Len(merged_forest)} = StartNodes
        /\ \A i, j \in 1..Len(merged_forest) :
              merged_forest[i].id = merged_forest[j].id => i = j
        /\ \A node \in ForestNodes :
              \A i, j \in 1..Len(node.children) :
                  node.children[i].id = node.children[j].id => i = j

\* the forest of an empty path and two paths that start with the same two
\* nodes and then part has been built
C21_Witness ==
    /\ pc = "forest"
    /\ Len(forward_paths) = 3
    /\ forward_paths[1] = <<>>
    /\ Len(forward_paths[2]) = 3 /\ Len(forward_paths[3]) = 3
    /\ SubSeq(forward_paths[2], 1, 2) = SubSeq(forward_paths[3], 1, 2)
    /\ forward_paths[2][3] # forward_paths[3][3]
    /\ Len(merged_forest) = 1
    /\ Len(merged_forest[1].children) = 1
    /\ Len(merged_forest[1].children[1].children) = 2

TreesSplit == pc \in {"split", "converted"}

SplitNodes == UNION {Subtrees(final_trees[i]) : i \in 1..Len(final_trees)}

\* C23: in every tree returned by _split_tree_at_or_nodes each node is a leaf,
\* or has exactly one child, or has several children only if its Type is AND.
C23_OnlyAndNodesBranch ==
    TreesSplit =>
        \A node \in SplitNodes : Len(node.children) <= 1 \/ IsAndType(node.id)

\* a forest in which a node that is not an AND node has two children has been
\* split into several trees, one of which holds an AND node with two children
C23_Witness ==
    /\ pc = "split"
    /\ \E node \in ForestNodes : ~IsAndType(node.id) /\ Len(node.children) >= 2
    /\ Len(final_trees) >= 2
    /\ \E node \in SplitNodes : IsAndType(node.id) /\ Len(node.children) >= 2

\* the conversion of a tree with the outer list and every nested list
\* reversed: a leaf is [id], a linear node follows the list of its child, an
\* AND node follows the group of its branches, the last branch first
RECURSIVE ReversedConversion(_)
ReversedConversion(node) ==
    IF node.children = <<>> THEN List(<<Atom(node.id)>>)
    ELSE IF IsAndType(node.id)
    THEN LET n == Len(node.children)
         IN  List(<<List([i \in 1..n |-> ReversedConversion(node.children[n + 1 - i])]),
                    Atom(node.id)>>)
    ELSE List(ReversedConversion(node.children[1]).items \o <<Atom(node.id)>>)

\* the ids n1, ..., nk of a tree that is a chain without an AND node above a
\* child, <<>> for any other tree
RECURSIVE ChainIds(_)
ChainIds(node) ==
    IF node.children = <<>> THEN <<node.id>>
    ELSE IF Len(node.children) = 1 /\ ~IsAndType(node.id)
              /\ ChainIds(node.children[1]) # <<>>
    THEN <<node.id>> \o ChainIds(node.children[1])
    ELSE <<>>

\* C24: for every split tree the structure returned is the conversion (leaf
\* [id], linear node [id] + child sequence, AND node [id, [branch sequences]])
\* with the outer list and every nested list reversed: a chain n1, ..., nk is
\* returned as [nk, ..., n1], an AND node's branch group precedes the gate id,
\* and no node id of the tree is lost or added.
C24_ReversedConversion ==
    pc = "converted" =>
        /\ Len(all_paths_as_lists) = Len(final_trees)
        /\ \A i \in 1..Len(final_trees) :
              LET tree == final_trees[i]
                  chain == ChainIds(tree)
              IN  /\ all_paths_as_lists[i] = ReversedConversion(tree)
                  /\ ListIds(all_paths_as_lists[i]) = TreeIds(tree)
                  /\ chain # <<>> =>
                        all_paths_as_lists[i] =
                            List([k \in 1..Len(chain) |-> Atom(chain[Len(chain) + 1 - k])])

\* an AND node with two branches, one of them of two nodes, has been converted,
\* and so has a chain of three nodes
C24_Witness ==
    /\ pc = "converted"
    /\ \E i \in 1..Len(final_trees) :
          /\ IsAndType(final_trees[i].id)
          /\ Len(final_trees[i].children) = 2
          /\ \E b \in 1..2 : final_trees[i].children[b].children # <<>>
    /\ \E i \in 1..Len(final_trees) : Len(ChainIds(final_trees[i])) = 3

\* the id sequences from the root of a tree to its leaves
RECURSIVE RootToLeaf(_)
RootToLeaf(tree) ==
    IF tree.children = <<>> THEN {<<tree.id>>}
    ELSE UNION {{<<tree.id>> \o p : p \in RootToLeaf(tree.children[i])} :
                   i \in 1..Len(tree.children)}

\* the root-to-leaf sequences of the trees of a list that are rooted at r
ChainsFrom(trees, r) ==
    UNION {RootToLeaf(trees[i]) : i \in {j \in 1..Len(trees) : trees[j].id = r}}

\* C28: the root-to-leaf id sequences over all trees returned by
\* _split_tree_at_or_nodes are those of the input tree, for every tree of the
\* forest, and the input tree is left unmodified: its dicts hold after the
\* call what they held before.
C28_SplitKeepsChains ==
    TreesSplit =>
        /\ \A i \in 1..Len(merged_forest) :
              ChainsFrom(final_trees, merged_forest[i].id) = RootToLeaf(merged_forest[i])
        /\ \A i \in 1..Len(final_trees) :
              \E j \in 1..Len(merged_forest) : merged_forest[j].id = final_trees[i].id
        /\ \A i \in 1..Len(forest_roots) :
              ReadTree(heap, forest_roots[i]) = merged_forest[i]

\* a tree whose root is an AND node above a child with two children has been
\* split: the rebuilt AND node has two children where the input has one, and
\* new dicts have been made
C28_Witness ==
    /\ pc = "split"
    /\ \E i \in 1..Len(merged_forest) :
          /\ IsAndType(merged_forest[i].id)
          /\ Len(merged_forest[i].children) = 1
          /\ ~IsAndType(merged_forest[i].children[1].id)
          /\ Len(merged_forest[i].children[1].children) = 2
          /\ \E k \in 1..Len(final_trees) :
                /\ final_trees[k].id = merged_forest[i].id
                /\ Len(final_trees[k].children) = 2
    /\ Len(heap) > forest_roots[Len(forest_roots)]

====
